---- MODULE Spec2Model ----
(***************************************************************************)
(* Background job orchestration core of editorIDE:                         *)
(*   backend/services/task_manager.py  TaskManager (the task registry)     *)
(*   backend/utils/ffmpeg_queue.py     FFmpegQueue (queue, worker loops,   *)
(*                                     execute_task)                       *)
(*                                                                         *)
(* Text is a sequence of one-character strings, so that len() and slicing  *)
(* are Len and SubSeq.  Python's None is the record None; an optional      *)
(* value v that is present is Some(v).                                     *)
(***************************************************************************)
EXTENDS Integers, Sequences, FiniteSets, TLC

VARIABLES
    tasks,           \* TaskManager.tasks: task id -> task record
    issued,          \* how many identifiers uuid4() has produced
    now,             \* the clock read by datetime.now()
    call,            \* the last call made on the registry by an outside caller
    threads,         \* the background functions running in pool threads
    max_concurrent,  \* FFmpegQueue.max_concurrent
    gpu_enabled,     \* FFmpegQueue.gpu_enabled
    queue,           \* FFmpegQueue.queue (asyncio.Queue of job dicts)
    running_tasks,   \* FFmpegQueue.running_tasks (a set of task ids)
    workers,         \* FFmpegQueue.workers: position of every worker loop
    pool,            \* how often start() and stop() have been called
    jobs,            \* every job dict put by add_task and its execute_task
    files,           \* the output paths that exist on disk
    dispatched,      \* the jobs in the order the workers dispatched them
    background,      \* the background functions added by the HTTP handlers
    active_connections,  \* ConnectionManager.active_connections
    accepted,        \* how many websockets have been accepted so far
    broadcast        \* the position of the running ConnectionManager.broadcast

vars == <<tasks, issued, now, call, threads, max_concurrent, gpu_enabled,
          queue, running_tasks, workers, pool, jobs, files, dispatched,
          background, active_connections, accepted, broadcast>>

web_vars == <<background, active_connections, accepted, broadcast>>

queue_vars == <<max_concurrent, gpu_enabled, queue, running_tasks, workers,
                pool, jobs, files, dispatched>>

----------------------------------------------------------------------------
(* Bounds of the model *)

MaxTasks == 2          \* tasks created
MaxJobs == 3           \* jobs submitted
MaxStarts == 1         \* calls of start()
MaxStops == 1          \* calls of stop()
MaxSerialJobs == 2     \* jobs submitted to a queue with max_concurrent = 1
MaxOutcomeTasks == 1   \* tasks created where every outcome of a job is explored
MaxOutcomeJobs == 1    \* jobs submitted where every outcome of a job is explored
MaxFairJobs == 2       \* jobs submitted where liveness is checked
MaxUpdates == 3        \* update calls made by callers outside the queue
MaxQueryTasks == 2     \* tasks created where the registry is queried and pruned
MaxQueryUpdates == 1   \* update calls made where the registry is queried and pruned
MaxClock == 21         \* the last reading of the clock
MaxThreadTasks == 1    \* tasks created where handlers run in threads
MaxThreadCalls == 2    \* update calls made by handlers running in threads
MaxPoolStarts == 2     \* calls of start() where the pool is started repeatedly
MaxBounceJobs == 3     \* jobs submitted where jobs are put back
MaxHandlerTasks == 1   \* requests that start a background function
MaxConnections == 3    \* websockets accepted
MaxBroadcasts == 1     \* calls of broadcast

----------------------------------------------------------------------------
(* Values *)

None == [none |-> TRUE]
Some(v) == [some |-> v]

Min(a, b) == IF a < b THEN a ELSE b
Max(a, b) == IF a > b THEN a ELSE b

Range(s) == {s[i] : i \in 1..Len(s)}

\* a text of n characters
Rep(n) == [i \in 1..n |-> "x"]

\* Python's s[:n] for n >= 0
Prefix(s, n) == SubSeq(s, 1, Min(n, Len(s)))

PENDING == "pending"
RUNNING == "running"
COMPLETED == "completed"
FAILED == "failed"
TaskStatus == {PENDING, RUNNING, COMPLETED, FAILED}

ErrorLimit == 200
MessageLimit == 100

\* FFmpegQueue(max_concurrent=2): the default and the module's instance
DefaultMaxConcurrent == 2

UnknownErrorText == <<"U", "n", "k", "n", "o", "w", "n", " ", "e", "r", "r", "o", "r">>
FailedPrefix == <<"F", "F", "m", "p", "e", "g", " ", "f", "a", "i", "l", "e", "d", ":", " ">>
StartingText == <<"S", "t", "a", "r", "t", "i", "n", "g", " ", "F", "F", "m", "p", "e", "g", " ", "p", "r", "o", "c", "e", "s", "s", ".", ".", ".">>
ProcessingText == <<"P", "r", "o", "c", "e", "s", "s", "i", "n", "g", " ", "v", "i", "d", "e", "o", ".", ".", ".">>
CompletedText == <<"V", "i", "d", "e", "o", " ", "p", "r", "o", "c", "e", "s", "s", "i", "n", "g", " ", "c", "o", "m", "p", "l", "e", "t", "e", "d">>
ExecErrorPrefix == <<"T", "a", "s", "k", " ", "e", "x", "e", "c", "u", "t", "i", "o", "n", " ", "e", "r", "r", "o", "r", ":", " ">>

\* Python truthiness of an optional text and of an optional dict (a dict is
\* a set of <<key, value>> pairs)
TruthyText(x) == x # None /\ x.some # <<>>
TruthyDict(x) == x # None /\ x.some # {}

----------------------------------------------------------------------------
(* Time stamps of the registry *)

\* The clock t counts in units of which DayLength make one day.  A reading on
\* a day boundary has microsecond = 0, every other reading has not.
DayLength == 2

Digits == <<"0", "1", "2", "3", "4", "5", "6", "7", "8", "9">>

\* the characters of a time stamp in the order of their code points
CodePoints == <<".">> \o Digits \o <<"T">>
Ord(c) == CHOOSE i \in 1..Len(CodePoints) : CodePoints[i] = c

\* Python's a < b on str
StrLess(a, b) ==
    \E i \in 1..(Min(Len(a), Len(b)) + 1) :
        /\ \A k \in 1..(i - 1) : a[k] = b[k]
        /\ \/ i > Len(a) /\ i <= Len(b)
           \/ i <= Len(a) /\ i <= Len(b) /\ Ord(a[i]) < Ord(b[i])

\* a day number printed without a leading zero
TwoDigits_NoPad(n) ==
    IF n < 10 THEN <<Digits[n + 1]>>
    ELSE <<Digits[(n \div 10) + 1], Digits[(n % 10) + 1]>>

\* a day number printed as two digits
TwoDigits(n) == <<Digits[(n \div 10) + 1], Digits[(n % 10) + 1]>>

\* datetime.isoformat(): the date, "T", the time of day, and the fraction
\* only when microsecond is not 0
isoformat(t) ==
    TwoDigits(t \div DayLength) \o <<"T", "0">>
        \o (IF t % DayLength = 0 THEN <<>> ELSE <<".", "5">>)

DigitValue(c) == Ord(c) - 2

\* datetime.fromisoformat(s).timestamp()
fromisoformat(s) ==
    (DigitValue(s[1]) * 10 + DigitValue(s[2])) * DayLength
        + (IF Len(s) > 4 THEN 1 ELSE 0)

----------------------------------------------------------------------------
(* TaskManager *)

\* uuid.uuid4(): an identifier that no task of this run has been given
TaskIds == 1..MaxTasks
UnknownId == 0
uuid4 == issued + 1

\* a clamp that forgets the lower end
ClampProgress_NoFloor(progress) == Min(100, progress)

\* min(100, max(0, progress))
ClampProgress(progress) == Min(100, Max(0, progress))

\* an update where a supplied status wins over a supplied error
UpdatedStatus_StatusWins(old, status, error) ==
    IF status # None THEN status.some
    ELSE IF TruthyText(error) THEN FAILED ELSE old

\* the status written by one update_task call: "if status:" first,
\* "if error:" last
UpdatedStatus(old, status, error) ==
    LET s1 == IF status # None THEN status.some ELSE old
    IN  IF TruthyText(error) THEN FAILED ELSE s1

\* an update that resets the progress when none is supplied
UpdatedTask_ResetsProgress(task, status, progress, message, result, error, t) ==
    [task EXCEPT
        !.status = UpdatedStatus(task.status, status, error),
        !.progress = IF progress # None THEN ClampProgress(progress.some) ELSE 0,
        !.message = IF TruthyText(message) THEN message.some ELSE @,
        !.result = IF TruthyDict(result) THEN result ELSE @,
        !.error = IF TruthyText(error) THEN error ELSE @,
        !.updated_at = isoformat(t)]

\* the record written by one update_task call on a known task
UpdatedTask(task, status, progress, message, result, error, t) ==
    [task EXCEPT
        !.status = UpdatedStatus(task.status, status, error),
        !.progress = IF progress # None THEN ClampProgress(progress.some) ELSE @,
        !.message = IF TruthyText(message) THEN message.some ELSE @,
        !.result = IF TruthyDict(result) THEN result ELSE @,
        !.error = IF TruthyText(error) THEN error ELSE @,
        !.updated_at = isoformat(t)]

\* an update that stores a record for an id the registry does not know
update_task_Upsert(ts, task_id, status, progress, message, result, error, t) ==
    [id \in DOMAIN ts \cup {task_id} |->
        IF id # task_id
        THEN ts[id]
        ELSE UpdatedTask(IF id \in DOMAIN ts THEN ts[id]
                         ELSE [id |-> id, type |-> "", description |-> <<>>,
                               status |-> PENDING, progress |-> 0,
                               message |-> <<>>, metadata |-> {},
                               created_at |-> isoformat(t),
                               updated_at |-> isoformat(t),
                               result |-> None, error |-> None],
                         status, progress, message, result, error, t)]

\* an update that applies its fields to every task when the id is unknown
update_task_Broadcast(ts, task_id, status, progress, message, result, error, t) ==
    [id \in DOMAIN ts |->
        IF task_id \in DOMAIN ts /\ id # task_id
        THEN ts[id]
        ELSE UpdatedTask(ts[id], status, progress, message, result, error, t)]

\* TaskManager.update_task
update_task(ts, task_id, status, progress, message, result, error, t) ==
    IF task_id \notin DOMAIN ts
    THEN ts
    ELSE [ts EXCEPT ![task_id] =
            UpdatedTask(ts[task_id], status, progress, message, result, error, t)]

\* the statements of update_task after "task = self.tasks[task_id]", in
\* the order in which a thread executes them
Statements == <<"status", "progress", "message", "result", "error", "failed",
                "updated_at", "done">>
NextStatement(pc) ==
    Statements[(CHOOSE i \in 1..Len(Statements) : Statements[i] = pc) + 1]

\* the task dict after one statement of update_task
AfterStatement(task, pc, a, t) ==
    CASE pc = "status" ->
            [task EXCEPT !.status = IF a.status # None THEN a.status.some ELSE @]
      [] pc = "progress" ->
            [task EXCEPT !.progress =
                IF a.progress # None THEN ClampProgress(a.progress.some) ELSE @]
      [] pc = "message" ->
            [task EXCEPT !.message = IF TruthyText(a.message) THEN a.message.some ELSE @]
      [] pc = "result" ->
            [task EXCEPT !.result = IF TruthyDict(a.result) THEN a.result ELSE @]
      [] pc = "error" ->
            [task EXCEPT !.error = IF TruthyText(a.error) THEN a.error ELSE @]
      [] pc = "failed" ->
            [task EXCEPT !.status = IF TruthyText(a.error) THEN FAILED ELSE @]
      [] pc = "updated_at" -> [task EXCEPT !.updated_at = isoformat(t)]

\* a create that stores the task as already running
NewTask_Running(task_id, task_type, description, metadata, t) ==
    [id |-> task_id, type |-> task_type, description |-> description,
     status |-> RUNNING, progress |-> 0, message |-> description,
     metadata |-> metadata, created_at |-> isoformat(t),
     updated_at |-> isoformat(t),
     result |-> None, error |-> None]

\* the record TaskManager.create_task stores
NewTask(task_id, task_type, description, metadata, t) ==
    [id |-> task_id, type |-> task_type, description |-> description,
     status |-> PENDING, progress |-> 0, message |-> description,
     metadata |-> metadata, created_at |-> isoformat(t),
     updated_at |-> isoformat(t),
     result |-> None, error |-> None]

\* TaskManager.create_task
create_task(ts, task_id, task_type, description, metadata, t) ==
    [id \in DOMAIN ts \cup {task_id} |->
        IF id = task_id
        THEN NewTask(task_id, task_type, description, metadata, t)
        ELSE ts[id]]

----------------------------------------------------------------------------
(* Queries and housekeeping of the registry *)

\* TaskManager.get_task
get_task(ts, task_id) == IF task_id \in DOMAIN ts THEN Some(ts[task_id]) ELSE None

\* an endpoint that answers 200 whatever the registry returned
StatusCode_AlwaysOk(ret) == 200

\* "not task" in the polling endpoint: a task dict always has its keys
StatusCode(ret) == IF ret = None THEN 404 ELSE 200

\* tasks.sort(key=created_at, reverse=True) puts a before b: the sort is
\* stable, and list(self.tasks.values()) is in the order of creation
SortsBefore(ts, a, b) ==
    \/ StrLess(ts[b].created_at, ts[a].created_at)
    \/ ts[a].created_at = ts[b].created_at /\ a < b

\* the list after tasks.sort(...)
SortedTasks(ts) ==
    [i \in 1..Cardinality(DOMAIN ts) |->
        ts[CHOOSE a \in DOMAIN ts :
              Cardinality({b \in DOMAIN ts : SortsBefore(ts, b, a)}) = i - 1]]

\* Python's s[:n] for any integer n
Slice(s, n) ==
    IF n >= 0 THEN Prefix(s, n) ELSE SubSeq(s, 1, Max(0, Len(s) + n))

\* TaskManager.get_all_tasks
get_all_tasks(ts, limit) == Slice(SortedTasks(ts), limit)

\* a prune that also removes the tasks created exactly at the cutoff
to_remove_Inclusive(ts, t, days) ==
    {id \in DOMAIN ts : fromisoformat(ts[id].created_at) <= t - days * DayLength}

\* the ids cleanup_old_tasks collects
to_remove(ts, t, days) ==
    {id \in DOMAIN ts : fromisoformat(ts[id].created_at) < t - days * DayLength}

\* TaskManager.cleanup_old_tasks
cleanup_old_tasks(ts, t, days) ==
    [id \in DOMAIN ts \ to_remove(ts, t, days) |-> ts[id]]

----------------------------------------------------------------------------
(* The environment of the queue: programs, processes, the file system *)

Executables == {"ffmpeg"}
PlainCommand == <<"ffmpeg", "-i">>
Commands == {PlainCommand, <<"ffmpeg", "-hwaccel">>, <<>>}
OutputPaths == {"a.mp4", "b.mp4"}
ExitCodes == {0, 1}

\* bytes a process can write to stderr: nothing, a short text, a text longer
\* than the limit, a two-byte UTF-8 character, an invalid byte
StderrBytes == {<<>>, Rep(ErrorLimit + 1), <<"x", "c3", "a9">>, <<"ff">>}

\* bytes.decode(): UTF-8 to text, Some(text), or None when it raises
\* UnicodeDecodeError.  "x" is an ASCII byte, "c3" "a9" are the two bytes of
\* one character, every other byte is invalid
ValidUtf8(b) ==
    \A i \in 1..Len(b) :
        \/ b[i] = "x"
        \/ b[i] = "c3" /\ i < Len(b) /\ b[i + 1] = "a9"
        \/ b[i] = "a9" /\ i > 1 /\ b[i - 1] = "c3"
IsLeadByte(x) == x # "a9"
decode(b) ==
    IF ~ValidUtf8(b) THEN None
    ELSE LET lead == SelectSeq(b, IsLeadByte)
         IN  Some([i \in 1..Len(lead) |-> IF lead[i] = "c3" THEN "e'" ELSE "x"])

\* str(e) of the exceptions the runtime raises inside execute_task
FileNotFoundText == Rep(47)   \* [Errno 2] No such file or directory: '-hwaccel'
LongPathErrorText == Rep(250) \* the same for a program path of 200 characters
NotImplementedText == <<>>    \* NotImplementedError() of a loop without subprocess support
DecodeErrorText == Rep(68)    \* 'utf-8' codec can't decode byte 0xff in position 0: ...
SpawnErrorTexts == {FileNotFoundText, LongPathErrorText, NotImplementedText}

\* create_subprocess_exec(*argv) can start a process
CanSpawn(argv) == argv # <<>> /\ Head(argv) \in Executables

----------------------------------------------------------------------------
(* FFmpegQueue *)

\* FFmpegQueue.get_gpu_flags
get_gpu_flags == IF ~gpu_enabled THEN <<>> ELSE <<"-hwaccel", "videotoolbox">>

\* the argument vector execute_task spawns
SpawnCommand(command) ==
    IF gpu_enabled /\ "-hwaccel" \notin Range(command)
    THEN get_gpu_flags \o command
    ELSE command

\* a put that places the item at the head of the queue
put_Front(q, item) == <<item>> \o q

\* a queue that takes no item while DefaultMaxConcurrent items are pending
put_Bounded(q, item) == IF Len(q) >= DefaultMaxConcurrent THEN q ELSE Append(q, item)

\* asyncio.Queue().put(item): maxsize is 0, the item goes to the end and
\* the caller is never suspended
put(q, item) == Append(q, item)

\* a capacity check that is off by one
AtCapacity_OffByOne == Cardinality(running_tasks) > max_concurrent

\* the worker's capacity check
AtCapacity == Cardinality(running_tasks) >= max_concurrent

JobIds == 1..Len(jobs)
WorkerIds == 1..Len(workers)

\* the jobs whose execute_task has started and not finished
Executing == {j \in JobIds : jobs[j].pc \in {"spawning", "communicating"}}
\* the jobs a worker has dispatched and that have not finished
InFlight == {j \in JobIds : jobs[j].pc \in {"scheduled", "spawning", "communicating"}}

\* a success branch that does not attach the result
ReportCompleted_NoResult(ts, task_id, output_path, t) ==
    update_task(ts, task_id, Some(COMPLETED), Some(100), Some(CompletedText),
                None, None, t)

\* the registry after the success branch of execute_task
ReportCompleted(ts, task_id, output_path, t) ==
    update_task(ts, task_id, Some(COMPLETED), Some(100), Some(CompletedText),
                Some({<<"output_path", output_path>>}), None, t)

\* a failure branch that stores the whole stderr text
ReportFailed_Untruncated(ts, task_id, error_msg, t) ==
    update_task(ts, task_id, Some(FAILED), Some(0),
                Some(FailedPrefix \o Prefix(error_msg, MessageLimit)),
                None, Some(error_msg), t)

\* a failure branch that leaves the progress where it was
ReportFailed_KeepsProgress(ts, task_id, error_msg, t) ==
    update_task(ts, task_id, Some(FAILED), None,
                Some(FailedPrefix \o Prefix(error_msg, MessageLimit)),
                None, Some(Prefix(error_msg, ErrorLimit)), t)

\* the registry after the failure branch of execute_task
ReportFailed(ts, task_id, error_msg, t) ==
    update_task(ts, task_id, Some(FAILED), Some(0),
                Some(FailedPrefix \o Prefix(error_msg, MessageLimit)),
                None, Some(Prefix(error_msg, ErrorLimit)), t)

\* an except branch that marks every task of the registry as failed
ReportException_Everyone(ts, task_id, text, t) ==
    [id \in DOMAIN ts |->
        UpdatedTask(ts[id], Some(FAILED), Some(0), Some(ExecErrorPrefix \o text),
                    None, Some(text), t)]

\* the registry after the except branch of execute_task
ReportException(ts, task_id, text, t) ==
    update_task(ts, task_id, Some(FAILED), Some(0),
                Some(ExecErrorPrefix \o text), None, Some(text), t)

\* a success test that looks at the exit code only
Succeeded_ExitOnly(returncode, output_path, fs) == returncode = 0

\* process.returncode == 0 and Path(output_path).exists()
Succeeded(returncode, output_path, fs) == returncode = 0 /\ output_path \in fs

---------------------------------------------------------------------------------------------------------------------------------------------------
(* Background functions of the HTTP handlers *)

\* the endpoints whose background function calls one VideoEditor method
EditorEndpoints == {"split", "speed", "volume", "text", "pip", "audio_replace",
                    "audio_add", "opacity", "duplicate"}

\* the endpoints whose background function runs two service calls with a
\* progress update between them
PipelineEndpoints == {"classification", "transcription", "roughcut"}

\* every endpoint that creates a task and adds a background function; the
\* endpoint's name is the task type, "ai" is POST /ai/execute-command
Endpoints == EditorEndpoints \cup PipelineEndpoints \cup {"edit", "ai"}

\* the operations the chain of edit_task knows
EditOperations == {"crop", "rotate", "reverse"}

\* the actions the chain of execute_task knows
AiActions == {"cut", "crop", "speed", "reverse", "rotate", "trim"}

\* what a request can select at each endpoint: request.operation of
\* /apply-edit and the action of a parsed command are free texts, "flip" and
\* "zoom" stand for those the chains do not know
Operations(endpoint) ==
    CASE endpoint = "edit" -> EditOperations \cup {"flip"}
      [] endpoint = "ai" -> AiActions \cup {"zoom"}
      [] OTHER -> {""}

\* str(e) of a raised exception and the stderr of a failed ffmpeg run: a
\* text that may be empty
FailureTexts == {<<>>, <<"e">>}

\* the dicts the VideoEditor methods return: on every path either
\* {"success": True, "output_path": ...} or {"success": False, "error": ...}
VideoEditorResults ==
    {{<<"success", TRUE>>, <<"output_path", <<"o">>>>}}
        \cup {{<<"success", FALSE>>, <<"error", e>>} : e \in FailureTexts}

\* dict.get(key): Some(value), or None for a missing key
dict_get(dict, key) ==
    IF \E p \in dict : p[1] = key
    THEN Some((CHOOSE p \in dict : p[1] = key)[2])
    ELSE None

\* the message of an update: an f-string with a fixed non-empty part
HandlerMessage == Some(<<"m">>)

\* the "except Exception as e" branch of a background function
FailedWith(ts, task_id, text, t) ==
    update_task(ts, task_id, Some(FAILED), Some(0), HandlerMessage, None,
                Some(text), t)

\* update_task(task_id, TaskStatus.RUNNING, 20, ...), the first statement of
\* every background function
MarkRunning(ts, task_id, t) ==
    update_task(ts, task_id, Some(RUNNING), Some(20), HandlerMessage, None, None, t)

\* update_task(task_id, TaskStatus.RUNNING, 60, ...)
MarkHalfway(ts, task_id, t) ==
    update_task(ts, task_id, Some(RUNNING), Some(60), HandlerMessage, None, None, t)

\* update_task(task_id, TaskStatus.COMPLETED, 100, ..., result)
MarkCompleted(ts, task_id, result, t) ==
    update_task(ts, task_id, Some(COMPLETED), Some(100), HandlerMessage,
                Some(result), None, t)

\* update_task(task_id, TaskStatus.FAILED, 0, ..., error=result.get('error'))
MarkFailed(ts, task_id, error, t) ==
    update_task(ts, task_id, Some(FAILED), Some(0), HandlerMessage, None, error, t)

\* split_task and the eight functions of its shape, after the VideoEditor
\* call returned result: "if result["success"]: ... else: ..."; a dict
\* without the key raises KeyError into the except branch
EditorOutcome(ts, task_id, result, t) ==
    IF dict_get(result, "success") = None
    THEN FailedWith(ts, task_id, <<"'", "s", "u", "c", "c", "e", "s", "s", "'">>, t)
    ELSE IF dict_get(result, "success").some
    THEN MarkCompleted(ts, task_id, result, t)
    ELSE MarkFailed(ts, task_id, dict_get(result, "error"), t)

\* an unknown operation that returns without an update
UnknownOperation_Returns(ts, task_id, t) == ts

\* edit_task, the else branch of the operation chain: the task is failed
\* with "Unknown operation: ..." and the function returns
UnknownOperation(ts, task_id, t) ==
    MarkFailed(ts, task_id, Some(<<"U", "n", "k", "n", "o", "w", "n", " ", "o", "p">>), t)

\* edit_task after a known operation returned result:
\* "if result and result.get("success"): ... elif result: ..."
EditOutcome(ts, task_id, result, t) ==
    IF result # {} /\ dict_get(result, "success") = Some(TRUE)
    THEN MarkCompleted(ts, task_id, result, t)
    ELSE IF result # {}
    THEN MarkFailed(ts, task_id, dict_get(result, "error"), t)
    ELSE ts

\* execute_task of /ai/execute-command after the action chain; result is
\* None when no branch of the chain matched the action:
\* "if result and result.get("success"): ... else: ..."
AiOutcome(ts, task_id, result, t) ==
    IF TruthyDict(result) /\ dict_get(result.some, "success") = Some(TRUE)
    THEN MarkCompleted(ts, task_id, result.some, t)
    ELSE MarkFailed(ts, task_id,
                    IF TruthyDict(result)
                    THEN (IF dict_get(result.some, "error") = None
                          THEN Some(UnknownErrorText)
                          ELSE dict_get(result.some, "error"))
                    ELSE Some(UnknownErrorText), t)

\* the task registry after the service call of background function b
\* returned result
Returned(ts, b, result, t) ==
    CASE b.endpoint \in EditorEndpoints -> EditorOutcome(ts, b.task_id, result, t)
      [] b.endpoint = "edit" -> EditOutcome(ts, b.task_id, result, t)
      [] b.endpoint = "ai" -> AiOutcome(ts, b.task_id, Some(result), t)

----------------------------------------------------------------------------
(* ConnectionManager *)

\* list.remove(x): the list without the first occurrence of x
remove(l, x) ==
    LET k == CHOOSE k \in 1..Len(l) :
                 l[k] = x /\ \A m \in 1..(k - 1) : l[m] # x
    IN  SubSeq(l, 1, k - 1) \o SubSeq(l, k + 1, Len(l))

\* ConnectionManager.disconnect
disconnect(l, websocket) ==
    IF websocket \in Range(l) THEN remove(l, websocket) ELSE l

\* "for connection in disconnected: self.disconnect(connection)"
RECURSIVE DisconnectAll(_, _)
DisconnectAll(l, disconnected) ==
    IF disconnected = <<>>
    THEN l
    ELSE DisconnectAll(disconnect(l, Head(disconnected)), Tail(disconnected))

\* the list iterator of "for connection in self.active_connections": it
\* keeps an index into the live list and stops when the index is past the
\* end; after the loop the function runs the removals and returns
NextConnection(l, b) ==
    IF b.i < Len(l)
    THEN [b EXCEPT !.pc = "sending", !.i = @ + 1, !.connection = l[b.i + 1]]
    ELSE [b EXCEPT !.pc = "done", !.connection = 0]

\* no broadcast has been called
NoBroadcast ==
    [pc |-> "idle", n |-> 0, i |-> 0, connection |-> 0,
     disconnected |-> <<>>, delivered |-> {}, stayed |-> {}]

----------------------------------------------------------------------------
(* Initial state: FFmpegQueue(max_concurrent) and TaskManager() constructed *)

NoCall == [op |-> "none", n |-> 0]

Init ==
    /\ tasks = <<>>
    /\ issued = 0
    /\ now = 0
    /\ call = NoCall
    /\ threads = <<>>
    /\ max_concurrent \in 1..DefaultMaxConcurrent
    /\ gpu_enabled \in BOOLEAN
    /\ queue = <<>>
    /\ running_tasks = {}
    /\ workers = <<>>
    /\ pool = [starts |-> 0, stops |-> 0]
    /\ jobs = <<>>
    /\ files = {}
    /\ dispatched = <<>>
    /\ background = <<>>
    /\ active_connections = <<>>
    /\ accepted = 0
    /\ broadcast = NoBroadcast

----------------------------------------------------------------------------
(* Operations of the registry *)

\* task_manager.create_task(task_type, description, metadata)
CreateTask(task_type, description, metadata) ==
    /\ tasks' = create_task(tasks, uuid4, task_type, description, metadata, now)
    /\ issued' = issued + 1
    /\ call' = [op |-> "create", n |-> call.n, id |-> uuid4]
    /\ UNCHANGED <<now, queue_vars, threads, web_vars>>

\* task_manager.update_task(task_id, ...) by a caller outside the queue
UpdateTask(task_id, a) ==
    /\ tasks' = update_task(tasks, task_id, a.status, a.progress, a.message,
                            a.result, a.error, now)
    /\ call' = [op |-> "update", n |-> call.n + 1, id |-> task_id, args |-> a]
    /\ UNCHANGED <<issued, now, queue_vars, threads, web_vars>>

\* task_manager.get_task(task_id) in the polling endpoint GET /task/{task_id}
GetTask(task_id) ==
    /\ call' = [op |-> "get", n |-> call.n, id |-> task_id,
                ret |-> get_task(tasks, task_id),
                status_code |-> StatusCode(get_task(tasks, task_id))]
    /\ UNCHANGED <<tasks, issued, now, queue_vars, threads, web_vars>>

\* task_manager.get_all_tasks(limit)
GetAllTasks(limit) ==
    /\ call' = [op |-> "list", n |-> call.n, limit |-> limit,
                ret |-> get_all_tasks(tasks, limit)]
    /\ UNCHANGED <<tasks, issued, now, queue_vars, threads, web_vars>>

\* task_manager.cleanup_old_tasks(days)
CleanupOldTasks(days) ==
    /\ tasks' = cleanup_old_tasks(tasks, now, days)
    /\ call' = [op |-> "prune", n |-> call.n, days |-> days]
    /\ UNCHANGED <<issued, now, queue_vars, threads, web_vars>>

\* a background function, run in a thread of the pool, enters
\* task_manager.update_task(task_id, ...): the membership test and
\* "task = self.tasks[task_id]"
EnterUpdate(task_id, a) ==
    /\ threads' = Append(threads,
                     [task_id |-> task_id, args |-> a,
                      pc |-> IF task_id \in DOMAIN tasks THEN "status" ELSE "done",
                      before |-> get_task(tasks, task_id)])
    /\ UNCHANGED <<tasks, issued, now, call, queue_vars, web_vars>>

\* thread th executes the next statement of its update_task call; another
\* thread can run before and after it
Statement(th) ==
    /\ threads[th].pc # "done"
    /\ tasks' = [tasks EXCEPT ![threads[th].task_id] =
                    AfterStatement(@, threads[th].pc, threads[th].args, now)]
    /\ threads' = [threads EXCEPT ![th].pc = NextStatement(@)]
    /\ UNCHANGED <<issued, now, call, queue_vars, web_vars>>

\* time passes: the clock read by datetime.now() advances by d
Tick(d) ==
    /\ now' = now + d
    /\ UNCHANGED <<tasks, issued, call, queue_vars, threads, web_vars>>

----------------------------------------------------------------------------
(* Operations of the queue *)

\* FFmpegQueue.add_task
AddTask(task_id, command, output_path) ==
    /\ jobs' = Append(jobs, [task_id |-> task_id, command |-> command,
                             output_path |-> output_path, pc |-> "queued",
                             argv |-> <<>>, returncode |-> None,
                             exists |-> None])
    /\ queue' = put(queue, Len(jobs) + 1)
    /\ UNCHANGED <<tasks, issued, now, call, threads, max_concurrent, gpu_enabled,
                   running_tasks, workers, pool, files, dispatched,
                   web_vars>>

\* FFmpegQueue.start
Start ==
    /\ workers' = workers \o [i \in 1..max_concurrent |-> [pc |-> "get", job |-> 0]]
    /\ pool' = [pool EXCEPT !.starts = @ + 1]
    /\ UNCHANGED <<tasks, issued, now, call, threads, max_concurrent, gpu_enabled,
                   queue, running_tasks, jobs, files, dispatched,
                   web_vars>>

\* a stop that also cancels the coroutines of the dispatched jobs
Stop_KillsJobs(swallow) ==
    /\ workers' = [w \in WorkerIds |-> [pc |-> "cancelled", job |-> 0]]
    /\ jobs' = [j \in JobIds |->
                  IF jobs[j].pc \in {"held", "scheduled", "spawning", "communicating"}
                  THEN [jobs[j] EXCEPT !.pc = "dropped"]
                  ELSE jobs[j]]
    /\ pool' = [pool EXCEPT !.stops = @ + 1]
    /\ UNCHANGED <<tasks, issued, now, call, threads, max_concurrent, gpu_enabled,
                   queue, running_tasks, files, dispatched, web_vars>>

\* FFmpegQueue.stop: every worker is cancelled.  A worker suspended in
\* queue.get() or in sleep() ends.  A worker whose inner queue.get() has
\* already returned a job, but whose wait_for has not resumed yet, either
\* keeps the job and swallows the cancellation or ends and drops the job,
\* depending on the wait_for of the running Python
Stop(swallow) ==
    /\ workers' = [w \in WorkerIds |->
                     IF workers[w].pc = "held" /\ swallow
                     THEN workers[w]
                     ELSE [pc |-> "cancelled", job |-> 0]]
    /\ jobs' = [j \in JobIds |->
                  IF jobs[j].pc = "held" /\ ~swallow
                  THEN [jobs[j] EXCEPT !.pc = "dropped"]
                  ELSE jobs[j]]
    /\ pool' = [pool EXCEPT !.stops = @ + 1]
    /\ UNCHANGED <<tasks, issued, now, call, threads, max_concurrent, gpu_enabled,
                   queue, running_tasks, files, dispatched, web_vars>>

\* a worker that reads the head of the queue and leaves it there
WorkerGet_Peek(w) ==
    /\ workers[w].pc \in {"get", "sleep"}
    /\ queue # <<>>
    /\ workers' = [workers EXCEPT ![w] = [pc |-> "held", job |-> Head(queue)]]
    /\ jobs' = [jobs EXCEPT ![Head(queue)].pc = "held"]
    /\ UNCHANGED <<tasks, issued, now, call, threads, max_concurrent, gpu_enabled,
                   queue, running_tasks, pool, files, dispatched,
                   web_vars>>

\* worker: the sleep after a put back, if any, is over and queue.get()
\* hands the head of the queue to this worker
WorkerGet(w) ==
    /\ workers[w].pc \in {"get", "sleep"}
    /\ queue # <<>>
    /\ workers' = [workers EXCEPT ![w] = [pc |-> "held", job |-> Head(queue)]]
    /\ queue' = Tail(queue)
    /\ jobs' = [jobs EXCEPT ![Head(queue)].pc = "held"]
    /\ UNCHANGED <<tasks, issued, now, call, threads, max_concurrent, gpu_enabled,
                   running_tasks, pool, files, dispatched, web_vars>>

\* a worker that forgets the job it dequeued when the ceiling is reached
WorkerCheck_LosesJob(w) ==
    /\ workers[w].pc = "held"
    /\ LET j == workers[w].job
       IN  IF AtCapacity
           THEN /\ jobs' = [jobs EXCEPT ![j].pc = "dropped"]
                /\ workers' = [workers EXCEPT ![w] = [pc |-> "sleep", job |-> 0]]
                /\ UNCHANGED <<queue, running_tasks, dispatched>>
           ELSE /\ running_tasks' = running_tasks \cup {jobs[j].task_id}
                /\ jobs' = [jobs EXCEPT ![j].pc = "scheduled"]
                /\ workers' = [workers EXCEPT ![w] = [pc |-> "get", job |-> 0]]
                /\ dispatched' = Append(dispatched, j)
                /\ UNCHANGED queue
    /\ UNCHANGED <<tasks, issued, now, call, threads, max_concurrent, gpu_enabled,
                   pool, files, web_vars>>

\* worker: the capacity check, then either the put back and the start of
\* asyncio.sleep(0.5), or the dispatch
WorkerCheck(w) ==
    /\ workers[w].pc = "held"
    /\ LET j == workers[w].job
       IN  IF AtCapacity
           THEN /\ queue' = put(queue, j)
                /\ jobs' = [jobs EXCEPT ![j].pc = "queued"]
                /\ workers' = [workers EXCEPT ![w] = [pc |-> "sleep", job |-> 0]]
                /\ UNCHANGED <<running_tasks, dispatched>>
           ELSE /\ running_tasks' = running_tasks \cup {jobs[j].task_id}
                /\ jobs' = [jobs EXCEPT ![j].pc = "scheduled"]
                /\ workers' = [workers EXCEPT ![w] = [pc |-> "get", job |-> 0]]
                /\ dispatched' = Append(dispatched, j)
                /\ UNCHANGED queue
    /\ UNCHANGED <<tasks, issued, now, call, threads, max_concurrent, gpu_enabled,
                   pool, files, web_vars>>

\* worker: a statement of the iteration raised an Exception after queue.get()
\* handed over a job and before execute_task was created; the handler logs
\* the error and the loop starts its next iteration
WorkerRaise(w) ==
    /\ workers[w].pc = "held"
    /\ jobs' = [jobs EXCEPT ![workers[w].job].pc = "dropped"]
    /\ workers' = [workers EXCEPT ![w] = [pc |-> "get", job |-> 0]]
    /\ UNCHANGED <<tasks, issued, now, call, threads, max_concurrent, gpu_enabled,
                   queue, running_tasks, pool, files, dispatched,
                   web_vars>>

\* an execute_task that spawns the process before it reports anything
ExecStart_Silent(j) ==
    /\ jobs[j].pc = "scheduled"
    /\ jobs' = [jobs EXCEPT ![j].pc = "spawning",
                            ![j].argv = SpawnCommand(jobs[j].command)]
    /\ UNCHANGED <<tasks, issued, now, call, threads, max_concurrent, gpu_enabled,
                   queue, running_tasks, workers, pool, files, dispatched,
                   web_vars>>

\* execute_task up to the await of create_subprocess_exec
ExecStart(j) ==
    /\ jobs[j].pc = "scheduled"
    /\ tasks' = update_task(tasks, jobs[j].task_id, Some(RUNNING), Some(10),
                            Some(StartingText), None, None, now)
    /\ jobs' = [jobs EXCEPT ![j].pc = "spawning",
                            ![j].argv = SpawnCommand(jobs[j].command)]
    /\ UNCHANGED <<issued, now, call, threads, max_concurrent, gpu_enabled, queue,
                   running_tasks, workers, pool, files, dispatched,
                   web_vars>>

\* create_subprocess_exec returned a process: up to the await of communicate
ExecSpawned(j) ==
    /\ jobs[j].pc = "spawning"
    /\ CanSpawn(jobs[j].argv)
    /\ tasks' = update_task(tasks, jobs[j].task_id, Some(RUNNING), Some(50),
                            Some(ProcessingText), None, None, now)
    /\ jobs' = [jobs EXCEPT ![j].pc = "communicating"]
    /\ UNCHANGED <<issued, now, call, threads, max_concurrent, gpu_enabled, queue,
                   running_tasks, workers, pool, files, dispatched,
                   web_vars>>

\* an except branch after which the task id stays in the running set
ExecSpawnFailed_KeepsSlot(j, text) ==
    /\ jobs[j].pc = "spawning"
    /\ tasks' = ReportException(tasks, jobs[j].task_id, text, now)
    /\ jobs' = [jobs EXCEPT ![j].pc = "done"]
    /\ UNCHANGED <<issued, now, call, threads, max_concurrent, gpu_enabled, queue,
                   running_tasks, workers, pool, files, dispatched,
                   web_vars>>

\* create_subprocess_exec raised: the except branch and the finally
ExecSpawnFailed(j, text) ==
    /\ jobs[j].pc = "spawning"
    /\ tasks' = ReportException(tasks, jobs[j].task_id, text, now)
    /\ running_tasks' = running_tasks \ {jobs[j].task_id}
    /\ jobs' = [jobs EXCEPT ![j].pc = "done"]
    /\ UNCHANGED <<issued, now, call, threads, max_concurrent, gpu_enabled, queue,
                   workers, pool, files, dispatched, web_vars>>

\* an execute_task without the finally: the task id stays in the running set
ExecExit_KeepsSlot(j, returncode, creates_output, stderr) ==
    /\ jobs[j].pc = "communicating"
    /\ files' = IF creates_output THEN files \cup {jobs[j].output_path} ELSE files
    /\ LET error_msg == IF stderr # <<>> THEN decode(stderr) ELSE Some(UnknownErrorText)
       IN  tasks' = IF Succeeded(returncode, jobs[j].output_path, files')
                    THEN ReportCompleted(tasks, jobs[j].task_id, jobs[j].output_path, now)
                    ELSE IF error_msg = None
                    THEN ReportException(tasks, jobs[j].task_id, DecodeErrorText, now)
                    ELSE ReportFailed(tasks, jobs[j].task_id, error_msg.some, now)
    /\ running_tasks' = running_tasks
    /\ jobs' = [jobs EXCEPT ![j].pc = "done",
                            ![j].returncode = Some(returncode),
                            ![j].exists = Some(jobs[j].output_path \in files')]
    /\ UNCHANGED <<issued, now, call, threads, max_concurrent, gpu_enabled, queue,
                   workers, pool, dispatched, web_vars>>

\* the process exited: communicate returned, the outcome is reported and
\* the finally releases the slot
ExecExit(j, returncode, creates_output, stderr) ==
    /\ jobs[j].pc = "communicating"
    /\ files' = IF creates_output THEN files \cup {jobs[j].output_path} ELSE files
    /\ LET error_msg == IF stderr # <<>> THEN decode(stderr) ELSE Some(UnknownErrorText)
       IN  tasks' = IF Succeeded(returncode, jobs[j].output_path, files')
                    THEN ReportCompleted(tasks, jobs[j].task_id, jobs[j].output_path, now)
                    ELSE IF error_msg = None
                    THEN ReportException(tasks, jobs[j].task_id, DecodeErrorText, now)
                    ELSE ReportFailed(tasks, jobs[j].task_id, error_msg.some, now)
    /\ running_tasks' = running_tasks \ {jobs[j].task_id}
    /\ jobs' = [jobs EXCEPT ![j].pc = "done",
                            ![j].returncode = Some(returncode),
                            ![j].exists = Some(jobs[j].output_path \in files')]
    /\ UNCHANGED <<issued, now, call, threads, max_concurrent, gpu_enabled, queue,
                   workers, pool, dispatched, web_vars>>

----------------------------------------------------------------------------
(* Operations of the HTTP handlers *)

\* a handler creates the task and adds its background function:
\* task_manager.create_task(...); background_tasks.add_task(...)
HandlerStart(endpoint, operation) ==
    /\ tasks' = create_task(tasks, uuid4, endpoint, <<"d">>, {}, now)
    /\ issued' = issued + 1
    /\ background' = Append(background,
                        [task_id |-> uuid4, endpoint |-> endpoint,
                         operation |-> operation, pc |-> "added"])
    /\ UNCHANGED <<now, call, threads, queue_vars, active_connections, accepted,
                   broadcast>>

\* the first statement of background function b
BackgroundBegins(b) ==
    /\ background[b].pc = "added"
    /\ tasks' = MarkRunning(tasks, background[b].task_id, now)
    /\ background' = [background EXCEPT ![b].pc = "working"]
    /\ UNCHANGED <<issued, now, call, threads, queue_vars, active_connections,
                   accepted, broadcast>>

\* edit_task or execute_task with an operation outside the chain: edit_task
\* fails the task and returns, execute_task goes on with result = None
BackgroundUnknown(b) ==
    /\ background[b].pc = "working"
    /\ \/ /\ background[b].endpoint = "edit"
          /\ background[b].operation \notin EditOperations
          /\ tasks' = UnknownOperation(tasks, background[b].task_id, now)
       \/ /\ background[b].endpoint = "ai"
          /\ background[b].operation \notin AiActions
          /\ tasks' = AiOutcome(tasks, background[b].task_id, None, now)
    /\ background' = [background EXCEPT ![b].pc = "returned"]
    /\ UNCHANGED <<issued, now, call, threads, queue_vars, active_connections,
                   accepted, broadcast>>

\* the VideoEditor call of background function b returns result and the
\* function reports it
BackgroundReturns(b, result) ==
    /\ background[b].pc = "working"
    /\ background[b].endpoint \notin PipelineEndpoints
    /\ background[b].endpoint = "edit" => background[b].operation \in EditOperations
    /\ background[b].endpoint = "ai" => background[b].operation \in AiActions
    /\ tasks' = Returned(tasks, background[b], result, now)
    /\ background' = [background EXCEPT ![b].pc = "returned"]
    /\ UNCHANGED <<issued, now, call, threads, queue_vars, active_connections,
                   accepted, broadcast>>

\* the first service call of a pipeline function returns:
\* update_task(task_id, TaskStatus.RUNNING, 60, ...)
BackgroundHalfway(b) ==
    /\ background[b].pc = "working"
    /\ background[b].endpoint \in PipelineEndpoints
    /\ tasks' = MarkHalfway(tasks, background[b].task_id, now)
    /\ background' = [background EXCEPT ![b].pc = "halfway"]
    /\ UNCHANGED <<issued, now, call, threads, queue_vars, active_connections,
                   accepted, broadcast>>

\* the second service call of a pipeline function returns: the task is
\* completed with the result dict and the job is logged
BackgroundCompletes(b) ==
    /\ background[b].pc = "halfway"
    /\ tasks' = MarkCompleted(tasks, background[b].task_id,
                              {<<"output_path", <<"o">>>>}, now)
    /\ background' = [background EXCEPT ![b].pc = "returned"]
    /\ UNCHANGED <<issued, now, call, threads, queue_vars, active_connections,
                   accepted, broadcast>>

\* a statement of background function b after the first update raises an
\* Exception whose str is text: the except branch fails the task
BackgroundRaises(b, text) ==
    /\ background[b].pc \in {"working", "halfway"}
    /\ tasks' = FailedWith(tasks, background[b].task_id, text, now)
    /\ background' = [background EXCEPT ![b].pc = "returned"]
    /\ UNCHANGED <<issued, now, call, threads, queue_vars, active_connections,
                   accepted, broadcast>>

----------------------------------------------------------------------------
(* Operations of the connection manager *)

\* the list after the step of a broadcast that reached position b
AfterBroadcastStep(l, b) ==
    IF b.pc = "done" THEN DisconnectAll(l, b.disconnected) ELSE l

\* ConnectionManager.connect of a new websocket; message_queue is empty
Connect ==
    /\ accepted' = accepted + 1
    /\ active_connections' = Append(active_connections, accepted + 1)
    /\ UNCHANGED <<tasks, issued, now, call, threads, queue_vars, background,
                   broadcast>>

\* the endpoint of websocket c ends: manager.disconnect(websocket)
Disconnect(c) ==
    /\ active_connections' = disconnect(active_connections, c)
    /\ broadcast' = [broadcast EXCEPT !.stayed = @ \ {c}]
    /\ UNCHANGED <<tasks, issued, now, call, threads, queue_vars, background,
                   accepted>>

\* ConnectionManager.broadcast up to its first await, or to its return when
\* there is no connection
Broadcast ==
    /\ broadcast.pc \in {"idle", "done"}
    /\ LET b == NextConnection(active_connections,
                   [NoBroadcast EXCEPT !.n = broadcast.n + 1,
                                       !.stayed = Range(active_connections)])
       IN  /\ broadcast' = b
           /\ active_connections' = AfterBroadcastStep(active_connections, b)
    /\ UNCHANGED <<tasks, issued, now, call, threads, queue_vars, background,
                   accepted>>

\* "await connection.send_json(message)" returns or raises; the loop goes
\* on to its next await, or to the removals and the return
SendDone(ok) ==
    /\ broadcast.pc = "sending"
    /\ LET sent == IF ok
                   THEN [broadcast EXCEPT !.delivered = @ \cup {broadcast.connection}]
                   ELSE [broadcast EXCEPT
                            !.disconnected = Append(@, broadcast.connection)]
           b == NextConnection(active_connections, sent)
       IN  /\ broadcast' = b
           /\ active_connections' = AfterBroadcastStep(active_connections, b)
    /\ UNCHANGED <<tasks, issued, now, call, threads, queue_vars, background,
                   accepted>>

----------------------------------------------------------------------------
(* Spec: the queue under every interleaving of callers, worker loops and   *)
(* jobs; every job runs the plain command                                  *)

Create == issued < MaxTasks /\ CreateTask("split", <<"d">>, {})

Submit ==
    /\ Len(jobs) < MaxJobs
    /\ \E t \in DOMAIN tasks : AddTask(t, PlainCommand, "a.mp4")

StartPool == pool.starts < MaxStarts /\ Start

StopPool == pool.stops < MaxStops /\ \E swallow \in BOOLEAN : Stop(swallow)

Get == \E w \in WorkerIds : WorkerGet(w)

Check == \E w \in WorkerIds : WorkerCheck(w)

Begin == \E j \in JobIds : ExecStart(j)

Spawned == \E j \in JobIds : ExecSpawned(j)

SpawnFailed == \E j \in JobIds : ExecSpawnFailed(j, FileNotFoundText)

Exit == \E j \in JobIds, rc \in ExitCodes, co \in BOOLEAN : ExecExit(j, rc, co, <<>>)

Next ==
    \/ Create \/ Submit \/ StartPool \/ StopPool
    \/ Get \/ Check
    \/ Begin \/ Spawned \/ SpawnFailed \/ Exit

Spec == Init /\ [][Next]_vars

----------------------------------------------------------------------------
(* SpecFair: Spec with the scheduling of the event loop: a worker loop or   *)
(* a job that can take a step eventually takes one, and every process       *)
(* that was spawned eventually exits                                        *)

MaxWorkers == MaxStarts * DefaultMaxConcurrent

WorkerStep(w) ==
    /\ w \in WorkerIds
    /\ WorkerGet(w) \/ WorkerCheck(w)

ExecStep(j) ==
    /\ j \in JobIds
    /\ \/ ExecStart(j)
       \/ ExecSpawned(j)
       \/ ExecSpawnFailed(j, FileNotFoundText)
       \/ \E rc \in ExitCodes, co \in BOOLEAN : ExecExit(j, rc, co, <<>>)

Fairness ==
    /\ \A w \in 1..MaxWorkers : WF_vars(WorkerStep(w))
    /\ \A j \in 1..MaxFairJobs : WF_vars(ExecStep(j))

SubmitFew ==
    /\ Len(jobs) < MaxFairJobs
    /\ \E t \in DOMAIN tasks : AddTask(t, PlainCommand, "a.mp4")

NextFair ==
    \/ Create \/ SubmitFew \/ StartPool \/ StopPool
    \/ Get \/ Check
    \/ Begin \/ Spawned \/ SpawnFailed \/ Exit

SpecFair == Init /\ [][NextFair]_vars /\ Fairness

----------------------------------------------------------------------------
(* SpecSerial: a queue constructed with max_concurrent = 1 *)

InitSerial == Init /\ max_concurrent = 1

SubmitSerial ==
    /\ Len(jobs) < MaxSerialJobs
    /\ \E t \in DOMAIN tasks : AddTask(t, PlainCommand, "a.mp4")

NextSerial ==
    \/ Create \/ SubmitSerial \/ StartPool
    \/ Get \/ Check
    \/ Begin \/ Spawned \/ SpawnFailed \/ Exit

SpecSerial == InitSerial /\ [][NextSerial]_vars

----------------------------------------------------------------------------
(* SpecOutcome: few jobs, every command, output path, exit code, stderr     *)
(* content and exception text                                               *)

CreateFew == issued < MaxOutcomeTasks /\ CreateTask("split", <<"d">>, {})

\* the caller starts the pool once, as a service does at startup
StartOnce == pool.starts = 0 /\ Start

SubmitAny ==
    /\ Len(jobs) < MaxOutcomeJobs
    /\ \E t \in DOMAIN tasks, c \in Commands, o \in OutputPaths : AddTask(t, c, o)

SpawnFailedAny ==
    \E j \in JobIds, text \in SpawnErrorTexts : ExecSpawnFailed(j, text)

ExitAny ==
    \E j \in JobIds, rc \in ExitCodes, co \in BOOLEAN, se \in StderrBytes :
        ExecExit(j, rc, co, se)

NextOutcome ==
    \/ CreateFew \/ SubmitAny \/ StartOnce
    \/ Get \/ Check
    \/ Begin \/ Spawned \/ SpawnFailedAny \/ ExitAny

SpecOutcome == Init /\ [][NextOutcome]_vars

----------------------------------------------------------------------------
(* SpecRegistry: the registry under arbitrary calls of its callers *)

StatusArgs == {None} \cup {Some(s) : s \in TaskStatus}
ErrorArgs == {None, Some(<<>>), Some(<<"e">>)}
ProgressArgs == {Some(0 - 10), Some(50), Some(150)}

NoArgs == [status |-> None, progress |-> None, message |-> None,
           result |-> None, error |-> None]

UpdateArgs ==
    {[NoArgs EXCEPT !.status = s, !.error = e] : s \in StatusArgs, e \in ErrorArgs}
    \cup {[NoArgs EXCEPT !.progress = p] : p \in ProgressArgs}
    \cup {[status |-> Some(COMPLETED), progress |-> Some(100),
           message |-> Some(<<"m">>), result |-> Some({<<"k", "v">>}),
           error |-> None],
          [NoArgs EXCEPT !.message = Some(<<>>), !.result = Some({})]}

Update ==
    /\ call.n < MaxUpdates
    /\ \E id \in DOMAIN tasks \cup {UnknownId}, a \in UpdateArgs : UpdateTask(id, a)

NextRegistry == Create \/ Update

SpecRegistry == Init /\ [][NextRegistry]_vars

----------------------------------------------------------------------------
(* SpecQuery: the registry created, read, listed and pruned as time passes  *)

ClockSteps == {7, 10}
Limits == {0, 1, 5}
Days == {1, 7}
PruneDays == {0, 1}

\* the arguments of the two terminal updates of a handler
CompletedArgs ==
    [status |-> Some(COMPLETED), progress |-> Some(100), message |-> Some(<<"m">>),
     result |-> Some({<<"k", "v">>}), error |-> None]
FailedArgs ==
    [status |-> Some(FAILED), progress |-> Some(0), message |-> Some(<<"m">>),
     result |-> None, error |-> Some(<<"e">>)]

CreateQuery == issued < MaxQueryTasks /\ CreateTask("split", <<"d">>, {})

UpdateQuery ==
    /\ call.n < MaxQueryUpdates
    /\ \E id \in 1..MaxQueryTasks, a \in {CompletedArgs, FailedArgs} : UpdateTask(id, a)

Poll == \E id \in 1..MaxQueryTasks : GetTask(id)

List == \E limit \in Limits : GetAllTasks(limit)

Prune == \E days \in Days : CleanupOldTasks(days)

Clock == \E d \in ClockSteps : now + d <= MaxClock /\ Tick(d)

NextQuery == CreateQuery \/ UpdateQuery \/ Poll \/ List \/ Prune \/ Clock

\* the registry does not depend on how the queue was constructed
InitQuery == Init /\ max_concurrent = DefaultMaxConcurrent /\ ~gpu_enabled

SpecQuery == InitQuery /\ [][NextQuery]_vars

----------------------------------------------------------------------------
(* SpecThreads: handlers' background functions update the registry from     *)
(* pool threads while the event loop serves GET /task/{task_id}            *)

\* the first update of a handler's background function
RunningArgs ==
    [status |-> Some(RUNNING), progress |-> Some(20), message |-> Some(<<"p">>),
     result |-> None, error |-> None]

HandlerCreate == issued < MaxThreadTasks /\ CreateTask("split", <<"d">>, {})

HandlerUpdate ==
    /\ Len(threads) < MaxThreadCalls
    /\ \E id \in 1..MaxThreadTasks, a \in {RunningArgs, CompletedArgs, FailedArgs} :
          EnterUpdate(id, a)

Run == \E th \in DOMAIN threads : Statement(th)

Observe == \E id \in 1..MaxThreadTasks : GetTask(id)

NextThreads == HandlerCreate \/ HandlerUpdate \/ Run \/ Observe

SpecThreads == InitQuery /\ [][NextThreads]_vars

----------------------------------------------------------------------------
(* SpecHang: SpecFair without the assumption that a process exits: the      *)
(* event loop runs every worker loop and every coroutine that can take a   *)
(* step, and communicate() returns only if the external process exits      *)

\* the steps of execute_task that do not wait for the external process
CoroutineStep(j) ==
    /\ j \in JobIds
    /\ \/ ExecStart(j)
       \/ ExecSpawned(j)
       \/ ExecSpawnFailed(j, FileNotFoundText)

FairnessHang ==
    /\ \A w \in 1..MaxWorkers : WF_vars(WorkerStep(w))
    /\ \A j \in 1..MaxFairJobs : WF_vars(CoroutineStep(j))

SpecHang == Init /\ [][NextFair]_vars /\ FairnessHang

----------------------------------------------------------------------------
(* SpecPool: start() and stop() called any number of times by the owner of  *)
(* the queue                                                                *)

StartAgain == pool.starts < MaxPoolStarts /\ Start

NextPool ==
    \/ CreateFew \/ SubmitSerial \/ StartAgain \/ StopPool
    \/ Get \/ Check
    \/ Begin \/ Spawned \/ SpawnFailed \/ Exit

SpecPool == Init /\ [][NextPool]_vars

----------------------------------------------------------------------------
(* SpecBounce: one worker loop and more jobs than slots, so that jobs are   *)
(* put back while others arrive                                             *)

SubmitMany ==
    /\ Len(jobs) < MaxBounceJobs
    /\ \E t \in DOMAIN tasks : AddTask(t, PlainCommand, "a.mp4")

NextBounce ==
    \/ CreateFew \/ SubmitMany \/ StartOnce
    \/ Get \/ Check
    \/ Begin \/ Spawned \/ SpawnFailed \/ Exit

SpecBounce == InitSerial /\ [][NextBounce]_vars

----------------------------------------------------------------------------
(* SpecShutdown: one worker loop, stopped at any moment, under the          *)
(* scheduling of SpecFair                                                   *)

NextShutdown ==
    \/ CreateFew \/ SubmitSerial \/ StartOnce \/ StopPool
    \/ Get \/ Check
    \/ Begin \/ Spawned \/ SpawnFailed \/ Exit

SpecShutdown == InitSerial /\ [][NextShutdown]_vars /\ Fairness

----------------------------------------------------------------------------
(* SpecFault: one worker loop in which an iteration can raise *)

Raise == \E w \in WorkerIds : WorkerRaise(w)

NextFault ==
    \/ CreateFew \/ SubmitSerial \/ StartOnce
    \/ Get \/ Check \/ Raise
    \/ Begin \/ Spawned \/ SpawnFailed \/ Exit

SpecFault == InitSerial /\ [][NextFault]_vars

----------------------------------------------------------------------------
(* SpecPrune: the registry is pruned while jobs are pending and executing  *)

PruneSoon == \E days \in PruneDays : CleanupOldTasks(days)

ClockOnce == now = 0 /\ Tick(DayLength)

NextPrune ==
    \/ CreateFew \/ SubmitSerial \/ StartOnce \/ PruneSoon \/ ClockOnce
    \/ Get \/ Check
    \/ Begin \/ Spawned \/ SpawnFailed \/ Exit

SpecPrune == InitSerial /\ [][NextPrune]_vars

----------------------------------------------------------------------------
(* SpecWs: websockets connect and disconnect while a broadcast runs *)

Accept == accepted < MaxConnections /\ Connect

Leave == \E c \in Range(active_connections) : Disconnect(c)

Announce == broadcast.n < MaxBroadcasts /\ Broadcast

Sent == \E ok \in BOOLEAN : SendDone(ok)

NextWs == Accept \/ Leave \/ Announce \/ Sent

SpecWs == InitQuery /\ [][NextWs]_vars

----------------------------------------------------------------------------
(* SpecHandlers: the HTTP handlers and their background functions *)

Request ==
    /\ issued < MaxHandlerTasks
    /\ \E endpoint \in Endpoints :
          \E operation \in Operations(endpoint) : HandlerStart(endpoint, operation)

Begins == \E b \in 1..Len(background) : BackgroundBegins(b)

Unknown == \E b \in 1..Len(background) : BackgroundUnknown(b)

Returns ==
    \E b \in 1..Len(background) :
        \E result \in VideoEditorResults : BackgroundReturns(b, result)

Halfway == \E b \in 1..Len(background) : BackgroundHalfway(b)

Completes == \E b \in 1..Len(background) : BackgroundCompletes(b)

Excepts ==
    \E b \in 1..Len(background) :
        \E text \in FailureTexts : BackgroundRaises(b, text)

NextHandlers ==
    Request \/ Begins \/ Unknown \/ Returns \/ Halfway \/ Completes \/ Excepts

SpecHandlers == InitQuery /\ [][NextHandlers]_vars

----------------------------------------------------------------------------
(* Claims about the concurrency ceiling *)

\* C1: the number of jobs whose execute_task has started and not finished
\* never exceeds max_concurrent
C1_CeilingRespected == Cardinality(Executing) <= max_concurrent

----------------------------------------------------------------------------
(* Claims about the outcome of a job *)

PoolRunning == pool.starts > 0 /\ pool.stops = 0

Terminal == {COMPLETED, FAILED}

\* job j's process exited with code 0 and its output file existed afterwards
ExitedOk(j) == jobs[j].returncode = Some(0) /\ jobs[j].exists = Some(TRUE)

\* job j's task is Completed with progress 100 and the output path as result
CompletedFor(j) ==
    LET t == tasks[jobs[j].task_id]
    IN  /\ t.status = COMPLETED
        /\ t.progress = 100
        /\ t.result = Some({<<"output_path", jobs[j].output_path>>})

\* C2: while the pool is started and not stopped, every submitted job of an
\* existing task eventually finishes, and when its process exited with code 0
\* and its output file exists, the task is then Completed with progress 100
\* and the output path in its result
C2_SuccessCompletes ==
    \A j \in 1..MaxFairJobs :
        (j \in JobIds /\ jobs[j].pc # "done" /\ PoolRunning
            /\ jobs[j].task_id \in DOMAIN tasks)
        ~> (\/ ~PoolRunning
            \/ j \in JobIds /\ jobs[j].pc = "done"
                 /\ (ExitedOk(j) => CompletedFor(j)))

C2_Witness ==
    \E j \in JobIds :
        /\ PoolRunning
        /\ jobs[j].pc = "done"
        /\ ExitedOk(j)
        /\ CompletedFor(j)

\* the step in which job j's process exits and execute_task reports it
Exits(j) == jobs[j].pc = "communicating" /\ jobs'[j].pc = "done"

\* C3: a job whose process exits with a nonzero code leaves its task Failed
\* with a non-empty error of at most 200 characters, whatever stderr held
C3_NonzeroExitFails ==
    [][\A j \in JobIds :
          (Exits(j) /\ jobs'[j].returncode # Some(0)
              /\ jobs[j].task_id \in DOMAIN tasks)
          => LET t == tasks'[jobs[j].task_id]
             IN  /\ t.status = FAILED
                 /\ t.error # None
                 /\ Len(t.error.some) >= 1
                 /\ Len(t.error.some) <= 200]_vars

C3_Witness ==
    \E j \in JobIds :
        /\ jobs[j].pc = "done"
        /\ jobs[j].returncode = Some(1)
        /\ tasks[jobs[j].task_id].status = FAILED
        /\ tasks[jobs[j].task_id].error = Some(Rep(200))

\* C4: when the process of a job exits, its task ends Completed if the exit
\* code is 0 and the output file exists, and Failed in every other case
C4_CompletedIffSuccess ==
    [][\A j \in JobIds :
          (Exits(j) /\ jobs[j].task_id \in DOMAIN tasks)
          => LET t == tasks'[jobs[j].task_id]
                 ok == jobs'[j].returncode = Some(0)
                       /\ jobs[j].output_path \in files'
             IN  /\ ok => t.status = COMPLETED
                 /\ ~ok => t.status = FAILED]_vars

C4_Witness ==
    \E j \in JobIds :
        /\ jobs[j].pc = "done"
        /\ jobs[j].returncode = Some(0)
        /\ jobs[j].exists = Some(FALSE)
        /\ tasks[jobs[j].task_id].status = FAILED

----------------------------------------------------------------------------
(* Claims about serial execution *)

\* every job is bound to a task of its own
DistinctTasks ==
    \A i, j \in JobIds : i # j => jobs[i].task_id # jobs[j].task_id

RunningTasks == {id \in DOMAIN tasks : tasks[id].status = RUNNING}

\* job j's execute_task has started
Started(j) == jobs[j].pc \in {"spawning", "communicating", "done"}

\* C5: with max_concurrent = 1 and jobs of distinct tasks, at most one task
\* is Running, and a job has started only if the task of the job dispatched
\* before it is Completed or Failed
C5_OneAtATime ==
    (max_concurrent = 1 /\ DistinctTasks)
    => /\ Cardinality(RunningTasks) <= 1
       /\ \A k \in 2..Len(dispatched) :
             Started(dispatched[k])
             => tasks[jobs[dispatched[k - 1]].task_id].status \in Terminal

C5_Witness ==
    /\ max_concurrent = 1
    /\ DistinctTasks
    /\ Len(dispatched) = 2
    /\ tasks[jobs[dispatched[2]].task_id].status = RUNNING
    /\ tasks[jobs[dispatched[1]].task_id].status \in Terminal

----------------------------------------------------------------------------
(* Claims about the registry *)

\* the step is an update call, a create call
UpdateStep == call'.op = "update" /\ call'.n = call.n + 1
CreateStep == call'.op = "create" /\ issued' = issued + 1

\* C6: an update that supplies progress p on a known task stores
\* min(100, max(0, p)), and every stored progress is in 0..100
C6_ProgressClamped ==
    /\ [](\A id \in DOMAIN tasks : tasks[id].progress \in 0..100)
    /\ [][(UpdateStep /\ call'.id \in DOMAIN tasks
              /\ call'.args.progress # None)
          => LET p == call'.args.progress.some
             IN  tasks'[call'.id].progress =
                    IF p < 0 THEN 0 ELSE IF p > 100 THEN 100 ELSE p]_vars

C6_Witness ==
    /\ call.op = "update"
    /\ call.id \in DOMAIN tasks
    /\ call.args.progress = Some(150)
    /\ tasks[call.id].progress = 100

\* C7: an update that supplies a non-empty error on a known task leaves the
\* task Failed with that error, whatever status it supplies
C7_ErrorForcesFailed ==
    [][(UpdateStep /\ call'.id \in DOMAIN tasks
           /\ call'.args.error # None /\ call'.args.error.some # <<>>)
       => /\ tasks'[call'.id].status = FAILED
          /\ tasks'[call'.id].error = call'.args.error]_vars

C7_Witness ==
    /\ call.op = "update"
    /\ call.id \in DOMAIN tasks
    /\ call.args.status = Some(COMPLETED)
    /\ call.args.error = Some(<<"e">>)
    /\ tasks[call.id].status = FAILED
    /\ tasks[call.id].error = Some(<<"e">>)

\* the fields of a task that update_task can write
Mutable(t) == <<t.status, t.progress, t.message, t.result, t.error>>

\* C8: once a task is Completed or Failed, no step changes its status,
\* progress, message, result or error
C8_TerminalImmutable ==
    [][\A id \in DOMAIN tasks :
          tasks[id].status \in Terminal
          => Mutable(tasks'[id]) = Mutable(tasks[id])]_vars

AllowedTransitions ==
    {<<PENDING, RUNNING>>, <<RUNNING, RUNNING>>, <<RUNNING, COMPLETED>>,
     <<RUNNING, FAILED>>, <<PENDING, COMPLETED>>, <<PENDING, FAILED>>}

\* C9: the status of a task changes only along Pending->Running,
\* Running->Completed, Running->Failed, Pending->Completed and
\* Pending->Failed
C9_TransitionsLegal ==
    [][\A id \in DOMAIN tasks :
          tasks'[id].status # tasks[id].status
          => <<tasks[id].status, tasks'[id].status>> \in AllowedTransitions]_vars

\* C10: create returns an id that is not in the registry, stores a task that
\* is Pending with progress 0, no result and no error, and changes no other
\* task
C10_CreateFresh ==
    [][CreateStep
       => LET id == call'.id
          IN  /\ id \notin DOMAIN tasks
              /\ DOMAIN tasks' = DOMAIN tasks \cup {id}
              /\ tasks'[id].id = id
              /\ tasks'[id].status = PENDING
              /\ tasks'[id].progress = 0
              /\ tasks'[id].result = None
              /\ tasks'[id].error = None
              /\ \A other \in DOMAIN tasks : tasks'[other] = tasks[other]]_vars

C10_Witness ==
    /\ call.op = "create"
    /\ call.id = 2
    /\ tasks[1].status = COMPLETED
    /\ tasks[1].result # None
    /\ tasks[2].status = PENDING
    /\ tasks[2].progress = 0

----------------------------------------------------------------------------
(* Claims about lookup, listing and pruning *)

NeverCreated(id) == id > issued
Pruned(id) == id \in 1..issued /\ id \notin DOMAIN tasks

\* C11: get_task on an id that was never created or that prune has removed
\* returns None and the polling endpoint answers 404; get_task on an id in
\* the registry returns that task and the endpoint answers 200
C11_GetTaskNotFound ==
    call.op = "get"
    => /\ (NeverCreated(call.id) \/ Pruned(call.id))
            => call.ret = None /\ call.status_code = 404
       /\ call.id \in DOMAIN tasks
            => call.ret = Some(tasks[call.id]) /\ call.status_code = 200

C11_Witness ==
    /\ call.op = "get"
    /\ Pruned(call.id)
    /\ call.ret = None
    /\ call.status_code = 404
    /\ tasks # <<>>

\* C12: an update whose id is not in the registry changes nothing in the
\* registry: no task is added for that id and no task is modified
C12_UnknownUpdateNoOp ==
    [][(UpdateStep /\ call'.id \notin DOMAIN tasks) => tasks' = tasks]_vars

C12_Witness ==
    /\ call.op = "update"
    /\ Pruned(call.id)
    /\ tasks # <<>>

\* the clock reading that a time stamp was printed from
ReadingOf(stamp) == CHOOSE t \in 0..MaxClock : isoformat(t) = stamp
CreatedAt(task) == ReadingOf(task.created_at)

\* C13: for a limit >= 0, get_all_tasks(limit) returns min(limit, number of
\* tasks) tasks of the registry, each once, ordered by creation time newest
\* first, and no task left out was created later than a task returned
C13_ListNewestFirst ==
    (call.op = "list" /\ call.limit >= 0)
    => LET ret == call.ret
           listed == {ret[i].id : i \in 1..Len(ret)}
       IN  /\ Len(ret) <= call.limit
           /\ Len(ret) = Min(call.limit, Cardinality(DOMAIN tasks))
           /\ Cardinality(listed) = Len(ret)
           /\ \A i \in 1..Len(ret) :
                 ret[i].id \in DOMAIN tasks /\ ret[i] = tasks[ret[i].id]
           /\ \A i, j \in 1..Len(ret) :
                 i < j => CreatedAt(ret[i]) >= CreatedAt(ret[j])
           /\ \A id \in DOMAIN tasks \ listed : \A i \in 1..Len(ret) :
                 CreatedAt(tasks[id]) <= CreatedAt(ret[i])

C13_Witness ==
    /\ call.op = "list"
    /\ call.limit = 1
    /\ DOMAIN tasks = {1, 2}
    /\ CreatedAt(tasks[1]) < CreatedAt(tasks[2])
    /\ Len(tasks[1].created_at) > Len(tasks[2].created_at)
    /\ call.ret = <<tasks[2]>>

\* the step in which cleanup_old_tasks runs
PruneStep == call'.op = "prune" /\ now' = now

\* C19: cleanup_old_tasks(days) removes exactly the tasks created before
\* now - days, whatever their status, and leaves every other task as it was
C19_PruneExact ==
    [][PruneStep
       => LET cutoff == now - call'.days * DayLength
          IN  /\ DOMAIN tasks' = {id \in DOMAIN tasks : CreatedAt(tasks[id]) >= cutoff}
              /\ \A id \in DOMAIN tasks' : tasks'[id] = tasks[id]]_vars

C19_Witness ==
    /\ call.op = "prune"
    /\ call.days = 7
    /\ Pruned(1)
    /\ DOMAIN tasks = {2}
    /\ tasks[2].status = COMPLETED
    /\ CreatedAt(tasks[2]) = now - call.days * DayLength

----------------------------------------------------------------------------
(* Claims about submission *)

\* C14: a job with an empty command is never in the queue, never takes an
\* execution slot and never changes its task
C14_EmptyCommandRejected ==
    \A j \in JobIds :
        jobs[j].command = <<>>
        => /\ j \notin Range(queue)
           /\ j \notin InFlight
           /\ jobs[j].pc # "done"

\* the step in which add_task puts a new job
Submits == Len(jobs') = Len(jobs) + 1

\* C15: add_task with a well-formed command can always be called, whatever
\* is pending or running; it appends the job to the end of the queue and
\* changes neither the task nor the running set
C15_SubmitAccepted ==
    /\ []((Len(jobs) < MaxJobs /\ DOMAIN tasks # {}) => ENABLED Submit)
    /\ [][Submits
          => /\ queue' = Append(queue, Len(jobs'))
             /\ jobs'[Len(jobs')].pc = "queued"
             /\ tasks' = tasks
             /\ running_tasks' = running_tasks]_vars

C15_Witness ==
    /\ Len(jobs) = MaxJobs
    /\ Len(queue) >= 2
    /\ queue[Len(queue)] = MaxJobs
    /\ AtCapacity
    /\ Executing # {}
    /\ tasks[jobs[MaxJobs].task_id].status = PENDING

----------------------------------------------------------------------------
(* Claims about failure isolation *)

\* the step in which job j ends in failure: the spawn raised, the process
\* exited with a nonzero code, or the output file is missing
Fails(j) ==
    /\ jobs[j].pc \in {"spawning", "communicating"}
    /\ jobs'[j].pc = "done"
    /\ ~(jobs'[j].returncode = Some(0) /\ jobs'[j].exists = Some(TRUE))

FailedJob(j) == j \in JobIds /\ jobs[j].pc = "done" /\ ~ExitedOk(j)

\* C16: the step in which a job fails changes no task but the job's own, no
\* other job, no worker loop and not the queue; and while the pool runs, a
\* job waiting in the queue after another job has failed is still dispatched
C16_FailureIsolated ==
    /\ [][\A j \in JobIds :
            Fails(j)
            => /\ \A id \in DOMAIN tasks \ {jobs[j].task_id} : tasks'[id] = tasks[id]
               /\ \A k \in JobIds \ {j} : jobs'[k] = jobs[k]
               /\ workers' = workers
               /\ queue' = queue]_vars
    /\ \A j, k \in 1..MaxFairJobs :
          (FailedJob(j) /\ k \in JobIds /\ jobs[k].pc = "queued" /\ PoolRunning)
          ~> (~PoolRunning \/ (k \in JobIds /\ jobs[k].pc \notin {"queued", "held"}))

C16_Witness ==
    /\ PoolRunning
    /\ dispatched = <<1, 2>>
    /\ jobs[1].task_id # jobs[2].task_id
    /\ FailedJob(1)
    /\ tasks[jobs[1].task_id].status = FAILED
    /\ jobs[2].pc = "done"
    /\ ExitedOk(2)
    /\ CompletedFor(2)
    /\ \A w \in WorkerIds : workers[w].pc # "cancelled"

----------------------------------------------------------------------------
(* Claims about the fields of a task *)

\* C17: in every state a task with a non-empty error is Failed and a task
\* with a result is Completed
C17_ResultAndErrorMatchStatus ==
    \A id \in DOMAIN tasks :
        /\ TruthyText(tasks[id].error) => tasks[id].status = FAILED
        /\ tasks[id].result # None => tasks[id].status = COMPLETED

\* the fields of a task that update_task never writes
Fixed(t) == <<t.id, t.type, t.description, t.metadata, t.created_at>>

\* C18: an update of a known task keeps its id, type, description, metadata
\* and created_at, keeps every one of status, progress, message, result and
\* error that the call does not supply, except that the status becomes
\* Failed when an error is supplied, and changes no other task
C18_UpdateFrame ==
    [][(UpdateStep /\ call'.id \in DOMAIN tasks)
       => LET a == call'.args
              old == tasks[call'.id]
              new == tasks'[call'.id]
          IN  /\ Fixed(new) = Fixed(old)
              /\ a.status = None
                    => \/ new.status = old.status
                       \/ a.error # None /\ new.status = FAILED
              /\ a.progress = None => new.progress = old.progress
              /\ a.message = None => new.message = old.message
              /\ a.result = None => new.result = old.result
              /\ a.error = None => new.error = old.error
              /\ \A id \in DOMAIN tasks \ {call'.id} : tasks'[id] = tasks[id]]_vars

C18_Witness ==
    /\ call.op = "update"
    /\ call.id \in DOMAIN tasks
    /\ call.args = [NoArgs EXCEPT !.progress = Some(50)]
    /\ tasks[call.id].status = COMPLETED
    /\ tasks[call.id].result = Some({<<"k", "v">>})
    /\ tasks[call.id].message = <<"m">>
    /\ tasks[call.id].progress = 50

----------------------------------------------------------------------------
(* Claims about concurrent callers *)

\* the threads that are inside update_task for task id
Updating(id) ==
    {th \in DOMAIN threads : threads[th].task_id = id /\ threads[th].pc # "done"}

\* the task as one whole application of thread th's update leaves it
WholeUpdate(th) ==
    UpdatedTask(threads[th].before.some, threads[th].args.status,
                threads[th].args.progress, threads[th].args.message,
                threads[th].args.result, threads[th].args.error, now)

\* C20: what GET /task/{task_id} returns while a single thread is inside
\* update_task for that task is the task either before the update or after
\* the whole update, never with only part of the update's fields written
C20_UpdateAtomic ==
    (call.op = "get" /\ call.ret # None /\ call.ret.some = tasks[call.id])
    => \A th \in Updating(call.id) :
          Updating(call.id) = {th}
          => \/ Mutable(call.ret.some) = Mutable(threads[th].before.some)
             \/ Mutable(call.ret.some) = Mutable(WholeUpdate(th))

----------------------------------------------------------------------------
(* Claims about shutdown and processes that do not exit *)

\* C21: a job that is waiting for its external process stops waiting after
\* a bounded time whether or not the process exits: it ends with its task
\* Failed or Completed and its slot released
C21_HangTimesOut ==
    \A j \in 1..MaxFairJobs :
        (j \in JobIds /\ jobs[j].pc = "communicating")
        ~> (j \in JobIds /\ jobs[j].pc = "done"
              /\ jobs[j].task_id \notin running_tasks)

\* the step is a call of stop()
Stops == pool'.stops = pool.stops + 1

\* C22: when stop() is called every worker loop that exists ends
C22_StopEndsWorkers ==
    [][Stops => \A w \in WorkerIds : workers'[w].pc = "cancelled"]_vars

\* C23: stop() leaves every dispatched job, the running set and the tasks
\* as they are; a job whose process exits after stop() still ends with its
\* task Completed or Failed according to the outcome and with its slot
\* released; and every job executing after stop() finishes
C23_StopSparesExecuting ==
    /\ [][Stops
          => /\ \A j \in InFlight : jobs'[j] = jobs[j]
             /\ running_tasks' = running_tasks
             /\ tasks' = tasks]_vars
    /\ [][\A j \in JobIds :
            (pool.stops > 0 /\ Exits(j) /\ jobs[j].task_id \in DOMAIN tasks)
            => LET t == tasks'[jobs[j].task_id]
                   ok == jobs'[j].returncode = Some(0)
                         /\ jobs[j].output_path \in files'
               IN  /\ t.status = IF ok THEN COMPLETED ELSE FAILED
                   /\ jobs[j].task_id \notin running_tasks']_vars
    /\ \A j \in 1..MaxFairJobs :
          (j \in JobIds /\ pool.stops > 0 /\ j \in Executing)
          ~> (j \in JobIds /\ jobs[j].pc = "done")

C23_Witness ==
    \E j \in JobIds :
        /\ pool.starts > 0
        /\ pool.stops > 0
        /\ \A w \in WorkerIds : workers[w].pc = "cancelled"
        /\ jobs[j].pc = "done"
        /\ ExitedOk(j)
        /\ CompletedFor(j)
        /\ jobs[j].task_id \notin running_tasks

----------------------------------------------------------------------------
(* Claims about the steps of a job *)

\* the step changes job j
JobStep(j) == jobs'[j] # jobs[j]

\* C24: a job that is not yet executing leaves the tasks alone; its first
\* step sets its task Running with progress 10 and the start message and
\* comes before the spawn; the step after the spawn keeps the task Running;
\* the task becomes Completed or Failed in the step that ends the job,
\* which comes after the first one, and a finished job takes no more steps
C24_UpdateOrder ==
    [][\A j \in JobIds :
          LET id == jobs[j].task_id
              before == jobs[j].pc
              after == jobs'[j].pc
          IN  (JobStep(j) /\ id \in DOMAIN tasks)
              => /\ before \in {"queued", "held"} => tasks' = tasks
                 /\ before = "scheduled"
                    => /\ after = "spawning"
                       /\ tasks'[id].status = RUNNING
                       /\ tasks'[id].progress = 10
                       /\ tasks'[id].message = StartingText
                 /\ before = "spawning"
                    => /\ after \in {"communicating", "done"}
                       /\ jobs'[j].returncode = None
                 /\ before = "communicating" => after = "done"
                 /\ after = "communicating" => tasks'[id].status = RUNNING
                 /\ after = "done"
                    => /\ before \in {"spawning", "communicating"}
                       /\ tasks'[id].status \in Terminal
                 /\ before # "done"]_vars

C24_Witness ==
    \E j \in JobIds :
        /\ jobs[j].pc = "spawning"
        /\ jobs[j].argv # <<>>
        /\ tasks[jobs[j].task_id].status = RUNNING
        /\ tasks[jobs[j].task_id].progress = 10
        /\ tasks[jobs[j].task_id].message = StartingText

\* C25: a worker loop holds no new job while a job it dispatched is
\* executing; with a single worker loop every executing job was dispatched
\* by it
C25_SlotBlocked ==
    Len(workers) = 1 => (workers[1].pc = "held" => Executing = {})

\* the step in which worker w puts back the job it holds
Bounces(w) == workers[w].pc = "held" /\ workers'[w].pc = "sleep"

----------------------------------------------------------------------------
(* Claims about the order of dispatch *)

\* the place of job j in queue q
Pos(q, j) == CHOOSE i \in 1..Len(q) : q[i] = j

\* job a is before job b in queue q
Ahead(q, a, b) ==
    /\ a \in Range(q)
    /\ b \in Range(q)
    /\ Pos(q, a) < Pos(q, b)

\* C27: the queue is first in, first out but for the put back: a job
\* leaves the queue from its head only, and a job submitted later gets
\* ahead of a job submitted earlier only in the step that puts the earlier
\* job back; the witness is the overtaking the put back makes possible
C27_OvertakenByBounce ==
    [][/\ \A j \in JobIds :
             (j \in Range(queue) /\ j \notin Range(queue')) => j = Head(queue)
       /\ \A a, b \in 1..Len(jobs') :
             (a < b /\ Ahead(queue', b, a))
             => \/ Ahead(queue, b, a)
                \/ \E w \in WorkerIds : Bounces(w) /\ workers[w].job = a]_vars

\* job b, submitted after job a, has started while a waits in the queue,
\* and the only worker loop took b after it had put a back
C27_Witness ==
    \E a, b \in JobIds :
        /\ Len(workers) = 1
        /\ a < b
        /\ jobs[a].pc = "queued"
        /\ a \in Range(queue)
        /\ a \notin Range(dispatched)
        /\ b \in Range(dispatched)
        /\ Started(b)

----------------------------------------------------------------------------
(* Claims about the pool, the command and the error text *)

\* the worker loops that have not ended
LiveWorkers == {w \in WorkerIds : workers[w].pc # "cancelled"}

\* C28: while the pool is started and not stopped, the number of live
\* worker loops is max_concurrent
C28_WorkersEqualCeiling ==
    PoolRunning => Cardinality(LiveWorkers) = max_concurrent

\* C29: the argument vector given to create_subprocess_exec is the command
\* that was submitted, for every command that names an executable
C29_ArgvAsSubmitted ==
    \A j \in JobIds :
        (Started(j) /\ jobs[j].command # <<>>) => jobs[j].argv = jobs[j].command

\* C30: the error stored in a task has at most 200 characters
C30_ErrorBounded ==
    \A id \in DOMAIN tasks :
        tasks[id].error # None => Len(tasks[id].error.some) <= ErrorLimit

----------------------------------------------------------------------------
(* Claims about failures and faults *)

\* C31: a job that ended in failure, by a spawn that raised, a nonzero exit
\* code or a missing output file, leaves its task Failed with an error that
\* is set and not empty
C31_FailurePopulatesError ==
    \A j \in JobIds :
        (FailedJob(j) /\ jobs[j].task_id \in DOMAIN tasks)
        => LET t == tasks[jobs[j].task_id]
           IN  /\ t.status = FAILED
               /\ t.error # None
               /\ t.error.some # <<>>

\* the step in which the iteration of worker w raises
Raises(w) ==
    /\ workers[w].pc = "held"
    /\ jobs'[workers[w].job].pc = "dropped"

\* C32: when an iteration of a worker loop raises after it took a job, the
\* loop goes on and the task of the job is Failed afterwards
C32_FaultFailsTask ==
    [][\A w \in WorkerIds :
          (Raises(w) /\ jobs[workers[w].job].task_id \in DOMAIN tasks)
          => /\ workers'[w].pc = "get"
             /\ tasks'[jobs[workers[w].job].task_id].status = FAILED]_vars

----------------------------------------------------------------------------
(* Claims about pruning under the queue *)

\* C33: a step of a job whose task is no longer in the registry leaves the
\* registry as it is, the job goes on as any other job, and when it ends
\* its task id is out of the running set
C33_PrunedTaskStaysGone ==
    [][\A j \in JobIds :
          (JobStep(j) /\ jobs[j].task_id \notin DOMAIN tasks)
          => /\ tasks' = tasks
             /\ jobs'[j].pc # "dropped"
             /\ jobs[j].pc = "scheduled" => jobs'[j].pc = "spawning"
             /\ jobs'[j].pc = "done" => jobs[j].task_id \notin running_tasks']_vars

C33_Witness ==
    \E j \in JobIds :
        /\ jobs[j].task_id \notin DOMAIN tasks
        /\ DOMAIN tasks = {}
        /\ jobs[j].pc = "communicating"
        /\ jobs[j].task_id \in running_tasks

----------------------------------------------------------------------------
(* Claims about the running set and the jobs *)

\* C34: every id in the running set is the task id of a job that was
\* dispatched and has not finished, so a finished job holds no slot and the
\* running set is empty when no job is in flight
C34_SlotsReleased ==
    /\ \A id \in running_tasks : \E j \in InFlight : jobs[j].task_id = id
    /\ InFlight = {} => running_tasks = {}

C34_Witness ==
    \E j \in JobIds :
        /\ jobs[j].pc = "done"
        /\ jobs[j].returncode = None
        /\ tasks[jobs[j].task_id].status = FAILED
        /\ InFlight = {}
        /\ running_tasks = {}

\* how many times job j occurs in sequence q
Occurrences(q, j) == Cardinality({i \in 1..Len(q) : q[i] = j})

\* the worker loops that hold job j
Holders(j) == {w \in WorkerIds : workers[w].pc = "held" /\ workers[w].job = j}

----------------------------------------------------------------------------
(* Claims about progress *)

\* C36: while the pool is started and not stopped, a job that waits in the
\* queue or is held by a worker is eventually dispatched, and every job of
\* an existing task eventually finishes with its task Completed or Failed
C36_EveryJobFinishes ==
    \A j \in 1..MaxFairJobs :
        /\ (j \in JobIds /\ PoolRunning /\ jobs[j].pc \in {"queued", "held"})
           ~> (~PoolRunning \/ (j \in JobIds /\ Occurrences(dispatched, j) = 1))
        /\ (j \in JobIds /\ PoolRunning /\ jobs[j].task_id \in DOMAIN tasks)
           ~> (\/ ~PoolRunning
               \/ /\ j \in JobIds
                  /\ jobs[j].pc = "done"
                  /\ jobs[j].task_id \in DOMAIN tasks
                  /\ tasks[jobs[j].task_id].status \in Terminal)

C36_Witness ==
    /\ PoolRunning
    /\ max_concurrent = 1
    /\ Len(jobs) = MaxFairJobs
    /\ dispatched = [k \in 1..MaxFairJobs |-> k]
    /\ queue = <<>>
    /\ \A j \in JobIds :
          jobs[j].pc = "done" /\ tasks[jobs[j].task_id].status \in Terminal

----------------------------------------------------------------------------
(* Claims about the fields of a task driven by the queue *)

\* C37: a Completed task has progress 100, a Failed task has progress 0,
\* and a Pending task has progress 0, no result and no error
C37_ProgressMatchesStatus ==
    \A id \in DOMAIN tasks :
        LET t == tasks[id]
        IN  /\ t.status = COMPLETED => t.progress = 100
            /\ t.status = FAILED => t.progress = 0
            /\ t.status = PENDING
               => t.progress = 0 /\ t.result = None /\ t.error = None

C37_Witness ==
    \E id \in DOMAIN tasks, j \in JobIds :
        /\ jobs[j].task_id = id
        /\ jobs[j].pc = "done"
        /\ jobs[j].returncode = Some(1)
        /\ tasks[id].status = FAILED
        /\ tasks[id].progress = 0
        /\ tasks[id].error = Some(UnknownErrorText)

----------------------------------------------------------------------------
(* Claims about the background functions of the handlers *)

\* C38: the task of a background function is Pending until the function
\* runs, Running from the function's first statement until it returns, and
\* Completed or Failed once the function has returned, on every path
C38_BackgroundEndsTerminal ==
    \A b \in 1..Len(background) :
        LET status == tasks[background[b].task_id].status
        IN  /\ background[b].pc = "added" => status = PENDING
            /\ background[b].pc \in {"working", "halfway"} => status = RUNNING
            /\ background[b].pc = "returned" => status \in Terminal

\* an apply-edit with an operation the code does not know has returned
C38_Witness ==
    \E b \in 1..Len(background) :
        /\ background[b].endpoint = "edit"
        /\ background[b].operation \notin EditOperations
        /\ background[b].pc = "returned"
        /\ tasks[background[b].task_id].status = FAILED

----------------------------------------------------------------------------
(* Claims about the connection manager *)

\* C39: when a broadcast has returned, every connection that was in
\* active_connections from its start to its end was sent the message
\* (delivered, or its send raised), and the connections whose send raised
\* are no longer in the list
C39_BroadcastReachesAll ==
    broadcast.pc = "done"
    => /\ broadcast.stayed
             \subseteq broadcast.delivered \cup Range(broadcast.disconnected)
       /\ Range(active_connections) \cap Range(broadcast.disconnected) = {}

====
